---- MODULE Spec2Model ----
(***************************************************************************)
(* Request-orchestration core of the AI style editor backend:              *)
(*   - admission controller  (middleware/rateLimiting.ts, RateLimiter)     *)
(*   - content cache          (services/cacheService.ts, CacheService)     *)
(*   - session ledger         (services/userSessionService.ts)             *)
(*   - transformation pipeline (handlers/editHandler.ts, EditHandler)      *)
(*   - template documents     (models/Template.ts, templateSchema)         *)
(*   - catalog reads          (handlers/templateHandler.ts, TemplateService)*)
(* Time is Date.now() in milliseconds.                                     *)
(***************************************************************************)
EXTENDS Integers, Sequences, FiniteSets, TLC

VARIABLES now,        \* Date.now()
          store,      \* RateLimiter.store : key -> [count, resetTime]
          limits,     \* the RateLimitConfig each route class was built with
          admitted,   \* history: per key, the instants at which a request was let through
          resp,       \* the last response of the rate limiting middleware
          nreq,       \* history: number of requests that reached the middleware
          cache,      \* CacheService.cache : Map<string, CacheEntry>, in iteration order
          written,    \* history: per key, the last set not undone by delete or eviction
          pending,    \* getOrSet calls that are awaiting their fetcher
          fetches,    \* history: number of fetcher invocations made by getOrSet
          out,        \* the last cache operation and what it returned
          cops,       \* history: number of cache operations started
          sessions,   \* UserSessionService.sessions : Map<string, SessionData>
          issued,     \* history: the session ids uuidv4() has handed out
          sout,       \* the last session ledger call and what it returned
          sops,       \* history: number of session ledger calls
          reqs,       \* the POST /api/edit requests in flight, each at its await point
          tdb,        \* Template collection: usage and analytics paths of each stored template
          editRecords,\* EditSession collection: the saved edit records
          response,   \* the HTTP response each request has received
          catResp,    \* the last response of a catalog handler (GET /api/templates...)
          dims        \* an uploaded image's size on its way through validateImage and optimizeImage

quotaVars == <<store, limits, admitted, resp, nreq>>

cacheVars == <<cache, written, pending, fetches, out, cops>>

sessVars == <<sessions, issued, sout, sops>>

editVars == <<reqs, tdb, editRecords, response>>

catVars == <<catResp>>

imgVars == <<dims>>

vars == <<now, quotaVars, cacheVars, sessVars, editVars, catVars, imgVars>>

\* ---------------------------------------------------------------- bounds
MaxTime == 3000
MaxAdmits == 3
MaxCacheOps == 3
MaxCacheTime == 1500
MaxSessOps == 4
MaxSessTicks == 4
MaxEditTime == 500
MaxUses == 2
MaxCatalogOps == 3
MaxCatalogTime == 600000
MaxSearchCalls == 52
MaxSearchTime == 400000

\* ---------------------------------------------------------------- helpers
MapSet(m, k, v) == [x \in (DOMAIN m) \cup {k} |-> IF x = k THEN v ELSE m[x]]

MapDelete(m, ks) == [x \in (DOMAIN m) \ ks |-> m[x]]

\* Math.ceil(a / b) for b > 0
Ceil(a, b) == -((-a) \div b)

Max(a, b) == IF a >= b THEN a ELSE b

\* =========================================================================
\* Admission controller
\* =========================================================================
Ips == {"10.0.0.1", "10.0.0.2"}

Paths == {"/api/templates/t1", "/api/templates/t2", "/api/edit"}

Classes == {"templates", "imageEdit"}

\* index.ts: which rateLimits.* middleware guards which route
RouteClass(path) ==
  IF path = "/api/edit" THEN "imageEdit"
  ELSE IF path = "/api/templates/search" THEN "search"
  ELSE "templates"

\* RateLimitConfig instances the middleware is exercised with: one window of
\* whole seconds, as in the shipped configurations, and one that is not
Configs == {[windowMs |-> 1500, maxRequests |-> 1],
            [windowMs |-> 2000, maxRequests |-> 2]}

getKey(ip, path) == ip \o ":" \o path

\* variant: the sweep also drops a window that ends at this very instant
cleanup_inclusive(s, t) == MapDelete(s, {k \in DOMAIN s : s[k].resetTime <= t})

cleanup(s, t) == MapDelete(s, {k \in DOMAIN s : s[k].resetTime < t})

WindowOver(s, key, t) == key \notin DOMAIN s \/ s[key].resetTime < t

\* variant: the ceiling test is off by one
isAllowed_offByOne(s, key, config, t) ==
  IF key \notin DOMAIN s \/ s[key].resetTime < t
    THEN [allowed |-> TRUE,
          store |-> MapSet(s, key, [count |-> 1, resetTime |-> t + config.windowMs])]
  ELSE IF s[key].count > config.maxRequests
    THEN [allowed |-> FALSE, store |-> s]
  ELSE [allowed |-> TRUE, store |-> [s EXCEPT ![key].count = @ + 1]]

\* isAllowed(key, config): the verdict, and the store as the call leaves it
isAllowed(s, key, config, t) ==
  IF WindowOver(s, key, t)
    THEN [allowed |-> TRUE,
          store |-> MapSet(s, key, [count |-> 1, resetTime |-> t + config.windowMs])]
  ELSE IF s[key].count >= config.maxRequests
    THEN [allowed |-> FALSE, store |-> s]
  ELSE [allowed |-> TRUE, store |-> [s EXCEPT ![key].count = @ + 1]]

getRemainingRequests(s, key, config, t) ==
  IF key \notin DOMAIN s \/ s[key].resetTime < t THEN config.maxRequests
  ELSE Max(0, config.maxRequests - s[key].count)

getResetTime(s, key, t) == IF key \in DOMAIN s THEN s[key].resetTime ELSE t

NoResp == [seq |-> 0, ip |-> "", path |-> "", status |-> 0, retryAfter |-> 0,
           remaining |-> 0, resetTime |-> 0, windowMs |-> 0, maxRequests |-> 0]

\* RateLimiter.middleware(config)(req, res, next)
Middleware(ip, path) ==
  LET key == getKey(ip, path)
      config == limits[RouteClass(path)]
      verdict == isAllowed(store, key, config, now)
      ok == verdict.allowed
      s2 == verdict.store
      resetTime == getResetTime(s2, key, now)
  IN /\ nreq' = nreq + 1
     /\ store' = s2
     /\ admitted' = IF ok THEN [admitted EXCEPT ![key] = Append(@, now)] ELSE admitted
     /\ resp' = IF ok
                 THEN [seq |-> nreq + 1, ip |-> ip, path |-> path, status |-> 200,
                       retryAfter |-> 0,
                       remaining |-> getRemainingRequests(s2, key, config, now),
                       resetTime |-> resetTime,
                       windowMs |-> config.windowMs, maxRequests |-> config.maxRequests]
                 ELSE [seq |-> nreq + 1, ip |-> ip, path |-> path, status |-> 429,
                       retryAfter |-> Ceil(resetTime - now, 1000),
                       remaining |-> 0,
                       resetTime |-> resetTime,
                       windowMs |-> config.windowMs, maxRequests |-> config.maxRequests]
     /\ UNCHANGED <<now, limits, cacheVars, sessVars, editVars, catVars, imgVars>>

Admit ==
  /\ nreq < MaxAdmits
  /\ \E ip \in Ips, path \in Paths : Middleware(ip, path)

\* the setInterval callback of the RateLimiter constructor
QuotaSweep ==
  /\ store' = cleanup(store, now)
  /\ store' # store
  /\ UNCHANGED <<now, limits, admitted, resp, nreq, cacheVars, sessVars, editVars, catVars, imgVars>>

QuotaTick ==
  /\ \E d \in {500, 1000} : now + d <= MaxTime /\ now' = now + d
  /\ UNCHANGED <<quotaVars, cacheVars, sessVars, editVars, catVars, imgVars>>

AllKeys == {getKey(ip, p) : ip \in Ips, p \in Paths}

InitQuota ==
  /\ store = <<>>
  /\ admitted = [k \in AllKeys |-> <<>>]
  /\ resp = NoResp
  /\ nreq = 0

NextQuota == Admit \/ QuotaSweep \/ QuotaTick

\* ------------------------------------------------------------------------
\* Admission controller as shipped: GET /api/templates/search
\* ------------------------------------------------------------------------
\* variant: the search class allows 10 requests per window
rateLimits_search10 ==
  [general   |-> [windowMs |-> 15 * 60 * 1000, maxRequests |-> 100],
   imageEdit |-> [windowMs |-> 60 * 60 * 1000, maxRequests |-> 10],
   templates |-> [windowMs |-> 15 * 60 * 1000, maxRequests |-> 200],
   search    |-> [windowMs |-> 5 * 60 * 1000,  maxRequests |-> 10],
   health    |-> [windowMs |-> 1 * 60 * 1000,  maxRequests |-> 30]]

\* export const rateLimits: the configuration of each class
rateLimits ==
  [general   |-> [windowMs |-> 15 * 60 * 1000, maxRequests |-> 100],
   imageEdit |-> [windowMs |-> 60 * 60 * 1000, maxRequests |-> 10],
   templates |-> [windowMs |-> 15 * 60 * 1000, maxRequests |-> 200],
   search    |-> [windowMs |-> 5 * 60 * 1000,  maxRequests |-> 50],
   health    |-> [windowMs |-> 1 * 60 * 1000,  maxRequests |-> 30]]

SearchPath == "/api/templates/search"

SearchIps == {"10.0.0.1"}

\* app.get('/api/templates/search', rateLimits.search, ...)
SearchCall ==
  /\ nreq < MaxSearchCalls
  /\ \E ip \in SearchIps : Middleware(ip, SearchPath)

SearchTick ==
  /\ now + 200000 <= MaxSearchTime
  /\ now' = now + 200000
  /\ UNCHANGED <<quotaVars, cacheVars, sessVars, editVars, catVars, imgVars>>

NextSearchQuota == SearchCall \/ QuotaSweep \/ SearchTick

\* =========================================================================
\* Content cache
\* =========================================================================
\* JavaScript null, which get() also returns for "no entry"
null == "null"

CacheKeys == {"k1", "k2", "k3"}

\* payloads handed to set
Values == {"v1", "v2"}

\* what a fetcher may resolve to (a lookup that finds nothing yields null)
FetchValues == Values \cup {null}

\* ttl arguments; 0 stands for an omitted ttl (ttl || defaultTTL)
Ttls == {0, 1000}

Callers == {"c1"}

\* cacheService singleton: defaultTTL: 10 * 60 * 1000
defaultTTL == 600000

\* CacheConfig.maxSize of the instance under test
maxSize == 2

\* --- Map<string, CacheEntry> as the sequence of its entries in iteration order
OMapKeys(m) == {m[i].key : i \in 1..Len(m)}

OMapHas(m, k) == k \in OMapKeys(m)

OMapIdx(m, k) == CHOOSE i \in 1..Len(m) : m[i].key = k

OMapGet(m, k) == m[OMapIdx(m, k)]

\* Map.set: an existing key keeps its place, a new key goes last
OMapPut(m, k, e) == IF OMapHas(m, k) THEN [m EXCEPT ![OMapIdx(m, k)] = e] ELSE Append(m, e)

OMapDel(m, k) == SelectSeq(m, LAMBDA e : e.key # k)

RECURSIVE ScanOldest(_, _, _, _)
\* the for-loop of evictOldest from entry i on
ScanOldest(m, i, oldestKey, oldestTime) ==
  IF i > Len(m) THEN oldestKey
  ELSE IF m[i].lastAccessed < oldestTime
    THEN ScanOldest(m, i + 1, m[i].key, m[i].lastAccessed)
  ELSE ScanOldest(m, i + 1, oldestKey, oldestTime)

evictOldest(m, t) ==
  LET oldestKey == ScanOldest(m, 1, "", t)
  IN IF oldestKey # "" THEN OMapDel(m, oldestKey) ELSE m

\* variant: an entry that is overwritten keeps its expiry and access statistics
set_keepsOld(m, key, data, ttl, t) ==
  LET expiresAt == t + (IF ttl # 0 THEN ttl ELSE defaultTTL)
      m1 == IF Len(m) >= maxSize THEN evictOldest(m, t) ELSE m
  IN IF OMapHas(m1, key)
       THEN [m1 EXCEPT ![OMapIdx(m1, key)].data = data]
       ELSE OMapPut(m1, key, [key |-> key, data |-> data, expiresAt |-> expiresAt,
                              createdAt |-> t, accessCount |-> 0, lastAccessed |-> t])

set(m, key, data, ttl, t) ==
  LET expiresAt == t + (IF ttl # 0 THEN ttl ELSE defaultTTL)
      m1 == IF Len(m) >= maxSize THEN evictOldest(m, t) ELSE m
  IN OMapPut(m1, key, [key |-> key, data |-> data, expiresAt |-> expiresAt,
                       createdAt |-> t, accessCount |-> 0, lastAccessed |-> t])

\* variant: the expiry test is missing
get_noExpiry(m, key, t) ==
  IF ~OMapHas(m, key) THEN [value |-> null, cache |-> m]
  ELSE [value |-> OMapGet(m, key).data,
        cache |-> [m EXCEPT ![OMapIdx(m, key)].accessCount = @ + 1,
                            ![OMapIdx(m, key)].lastAccessed = t]]

\* get(key): the value returned, and the map as the call leaves it
get(m, key, t) ==
  IF ~OMapHas(m, key) THEN [value |-> null, cache |-> m]
  ELSE IF t > OMapGet(m, key).expiresAt
    THEN [value |-> null, cache |-> OMapDel(m, key)]
  ELSE [value |-> OMapGet(m, key).data,
        cache |-> [m EXCEPT ![OMapIdx(m, key)].accessCount = @ + 1,
                            ![OMapIdx(m, key)].lastAccessed = t]]

has(m, key, t) ==
  IF ~OMapHas(m, key) THEN [value |-> FALSE, cache |-> m]
  ELSE IF t > OMapGet(m, key).expiresAt
    THEN [value |-> FALSE, cache |-> OMapDel(m, key)]
  ELSE [value |-> TRUE, cache |-> m]

cacheCleanup(m, t) == SelectSeq(m, LAMBDA e : ~(t > e.expiresAt))

\* history bookkeeping: forget the keys an operation removed other than by expiry
Forget(w, ks) == [k \in (DOMAIN w) \ ks |-> w[k]]

Record(w, key, data, ttl, t) ==
  [k \in (DOMAIN w) \cup {key} |->
     IF k = key THEN [data |-> data, at |-> t, ttl |-> ttl] ELSE w[k]]

NoOut == [seq |-> 0, op |-> "", key |-> "", caller |-> "", result |-> ""]

Op(name, key, caller, result) ==
  [seq |-> out.seq + 1, op |-> name, key |-> key, caller |-> caller, result |-> result]

CacheSet ==
  \E key \in CacheKeys, data \in Values, ttl \in Ttls :
    LET m2 == set(cache, key, data, ttl, now)
    IN /\ cops < MaxCacheOps
       /\ cops' = cops + 1
       /\ cache' = m2
       /\ written' = Record(Forget(written, OMapKeys(cache) \ OMapKeys(m2)), key, data, ttl, now)
       /\ out' = Op("set", key, "", "")
       /\ UNCHANGED <<now, pending, fetches, quotaVars, sessVars, editVars, catVars, imgVars>>

CacheGet ==
  \E key \in CacheKeys :
    /\ cops < MaxCacheOps
    /\ cops' = cops + 1
    /\ cache' = get(cache, key, now).cache
    /\ out' = Op("get", key, "", get(cache, key, now).value)
    /\ UNCHANGED <<now, written, pending, fetches, quotaVars, sessVars, editVars, catVars, imgVars>>

CacheHas ==
  \E key \in CacheKeys :
    /\ cops < MaxCacheOps
    /\ cops' = cops + 1
    /\ cache' = has(cache, key, now).cache
    /\ out' = Op("has", key, "", IF has(cache, key, now).value THEN "true" ELSE "false")
    /\ UNCHANGED <<now, written, pending, fetches, quotaVars, sessVars, editVars, catVars, imgVars>>

CacheDelete ==
  \E key \in CacheKeys :
    /\ cops < MaxCacheOps
    /\ cops' = cops + 1
    /\ cache' = OMapDel(cache, key)
    /\ written' = Forget(written, {key})
    /\ out' = Op("delete", key, "", IF OMapHas(cache, key) THEN "true" ELSE "false")
    /\ UNCHANGED <<now, pending, fetches, quotaVars, sessVars, editVars, catVars, imgVars>>

\* getOrSet called by c, up to its await: a hit returns, a miss starts the fetcher
GetOrSetBeginBy(c) ==
  \E key \in CacheKeys, ttl \in Ttls :
    LET cached == get(cache, key, now)
    IN /\ cops < MaxCacheOps
       /\ c \notin DOMAIN pending
       /\ cops' = cops + 1
       /\ cache' = cached.cache
       /\ IF cached.value # null
            THEN /\ out' = Op("getOrSet", key, c, cached.value)
                 /\ UNCHANGED <<pending, fetches>>
            ELSE /\ out' = Op("fetch", key, c, "")
                 /\ pending' = [x \in (DOMAIN pending) \cup {c} |->
                                  IF x = c THEN [key |-> key, ttl |-> ttl] ELSE pending[x]]
                 /\ fetches' = fetches + 1
       /\ UNCHANGED <<now, written, quotaVars, sessVars, editVars, catVars, imgVars>>

GetOrSetBegin == \E c \in Callers : GetOrSetBeginBy(c)

\* variant: a caller whose key has been filled meanwhile returns that value
GetOrSetEnd_singleFlight ==
  \E c \in DOMAIN pending, data \in FetchValues :
    LET key == pending[c].key
        ttl == pending[c].ttl
        filled == OMapHas(cache, key)
        m2 == IF filled THEN cache ELSE set(cache, key, data, ttl, now)
    IN /\ cache' = m2
       /\ written' = IF filled THEN written
                      ELSE Record(Forget(written, OMapKeys(cache) \ OMapKeys(m2)),
                                  key, data, ttl, now)
       /\ pending' = [x \in (DOMAIN pending) \ {c} |-> pending[x]]
       /\ out' = Op("getOrSet", key, c, IF filled THEN OMapGet(cache, key).data ELSE data)
       /\ UNCHANGED <<now, fetches, cops, quotaVars, sessVars, editVars, catVars, imgVars>>

\* the fetcher resolves: getOrSet stores and returns its value
GetOrSetEnd ==
  \E c \in DOMAIN pending, data \in FetchValues :
    LET key == pending[c].key
        ttl == pending[c].ttl
        m2 == set(cache, key, data, ttl, now)
    IN /\ cache' = m2
       /\ written' = Record(Forget(written, OMapKeys(cache) \ OMapKeys(m2)), key, data, ttl, now)
       /\ pending' = [x \in (DOMAIN pending) \ {c} |-> pending[x]]
       /\ out' = Op("getOrSet", key, c, data)
       /\ UNCHANGED <<now, fetches, cops, quotaVars, sessVars, editVars, catVars, imgVars>>

\* the fetcher rejects: getOrSet throws, nothing is stored
GetOrSetThrow ==
  \E c \in DOMAIN pending :
    /\ pending' = [x \in (DOMAIN pending) \ {c} |-> pending[x]]
    /\ out' = Op("throw", pending[c].key, c, "")
    /\ UNCHANGED <<now, cache, written, fetches, cops, quotaVars, sessVars, editVars, catVars, imgVars>>

\* the setInterval callback of the CacheService constructor
CacheSweep ==
  /\ cache' = cacheCleanup(cache, now)
  /\ cache' # cache
  /\ UNCHANGED <<now, written, pending, fetches, out, cops, quotaVars, sessVars, editVars, catVars, imgVars>>

CacheTick ==
  /\ now + 500 <= MaxCacheTime
  /\ now' = now + 500
  /\ UNCHANGED <<quotaVars, cacheVars, sessVars, editVars, catVars, imgVars>>

InitCache ==
  /\ cache = <<>>
  /\ written = <<>>
  /\ pending = <<>>
  /\ fetches = 0
  /\ out = NoOut
  /\ cops = 0

\* getOrSet under concurrent callers
ConcurrentCallers == {"c1", "c2"}

ConcurrentGetOrSetBegin == \E c \in ConcurrentCallers : GetOrSetBeginBy(c)

NextFill == ConcurrentGetOrSetBegin \/ GetOrSetEnd \/ GetOrSetThrow \/ CacheTick

NextCache ==
  \/ CacheSet \/ CacheGet \/ CacheHas \/ CacheDelete
  \/ GetOrSetBegin \/ GetOrSetEnd \/ GetOrSetThrow
  \/ CacheSweep \/ CacheTick

\* =========================================================================
\* Session ledger
\* =========================================================================
\* private sessionTimeout: number = 24 * 60 * 60 * 1000
sessionTimeout == 86400000

\* the ids uuidv4() can return, and one id the server never issued
SessionIds == {"s1", "s2"}

TokenIds == SessionIds \cup {"forged"}

UserIds == {"none", "u1"}

\* clock steps of the ledger scenarios: half a timeout, or one millisecond
HalfTimeout == sessionTimeout \div 2

NoSout == [seq |-> 0, op |-> "", sid |-> "", result |-> "", was |-> -1]

\* was: lastActivity of the addressed session before the call, -1 if none
SOp(name, sid, result) ==
  [seq |-> sout.seq + 1, op |-> name, sid |-> sid, result |-> result,
   was |-> IF sid \in DOMAIN sessions THEN sessions[sid].lastActivity ELSE -1]

\* createSession(userData?, metadata?) including its user lookup
CreateSession ==
  \E sid \in SessionIds \ issued, user \in UserIds :
    /\ sops < MaxSessOps
    /\ sops' = sops + 1
    /\ issued' = issued \cup {sid}
    /\ sessions' = MapSet(sessions, sid, [sessionId |-> sid, userId |-> user,
                                          createdAt |-> now, lastActivity |-> now,
                                          isActive |-> TRUE])
    /\ sout' = SOp("create", sid, "session")
    /\ UNCHANGED <<now, quotaVars, cacheVars, editVars, catVars, imgVars>>

\* createSession when User.findByEmail / user.save rejects: logged and rethrown
CreateSessionThrow ==
  \E sid \in SessionIds \ issued :
    /\ sops < MaxSessOps
    /\ sops' = sops + 1
    /\ issued' = issued \cup {sid}
    /\ sout' = SOp("create", sid, "throw")
    /\ UNCHANGED <<now, sessions, quotaVars, cacheVars, editVars, catVars, imgVars>>

\* variant: a successful read does not refresh lastActivity
getSession_noRefresh(m, sid, t) ==
  IF sid \notin DOMAIN m \/ ~m[sid].isActive THEN [value |-> "null", sessions |-> m]
  ELSE IF t - m[sid].lastActivity > sessionTimeout
    THEN [value |-> "null", sessions |-> MapDelete(m, {sid})]
  ELSE [value |-> "session", sessions |-> m]

getSession(m, sid, t) ==
  IF sid \notin DOMAIN m \/ ~m[sid].isActive THEN [value |-> "null", sessions |-> m]
  ELSE IF t - m[sid].lastActivity > sessionTimeout
    THEN [value |-> "null", sessions |-> MapDelete(m, {sid})]
  ELSE [value |-> "session", sessions |-> [m EXCEPT ![sid].lastActivity = t]]

updateSessionActivity(m, sid, t) ==
  IF sid \notin DOMAIN m \/ ~m[sid].isActive THEN [value |-> "false", sessions |-> m]
  ELSE [value |-> "true", sessions |-> [m EXCEPT ![sid].lastActivity = t]]

\* isActive is cleared on the object, which then leaves the map
endSession(m, sid) ==
  IF sid \notin DOMAIN m THEN [value |-> "false", sessions |-> m]
  ELSE [value |-> "true", sessions |-> MapDelete(m, {sid})]

cleanupExpiredSessions(m, t) ==
  MapDelete(m, {sid \in DOMAIN m : t - m[sid].lastActivity > sessionTimeout})

GetSession ==
  \E sid \in TokenIds :
    /\ sops < MaxSessOps
    /\ sops' = sops + 1
    /\ sessions' = getSession(sessions, sid, now).sessions
    /\ sout' = SOp("get", sid, getSession(sessions, sid, now).value)
    /\ UNCHANGED <<now, issued, quotaVars, cacheVars, editVars, catVars, imgVars>>

UpdateSessionActivity ==
  \E sid \in TokenIds :
    /\ sops < MaxSessOps
    /\ sops' = sops + 1
    /\ sessions' = updateSessionActivity(sessions, sid, now).sessions
    /\ sout' = SOp("touch", sid, updateSessionActivity(sessions, sid, now).value)
    /\ UNCHANGED <<now, issued, quotaVars, cacheVars, editVars, catVars, imgVars>>

EndSession ==
  \E sid \in TokenIds :
    /\ sops < MaxSessOps
    /\ sops' = sops + 1
    /\ sessions' = endSession(sessions, sid).sessions
    /\ sout' = SOp("end", sid, endSession(sessions, sid).value)
    /\ UNCHANGED <<now, issued, quotaVars, cacheVars, editVars, catVars, imgVars>>

\* the setInterval callback of the UserSessionService constructor
SessionSweep ==
  /\ sessions' = cleanupExpiredSessions(sessions, now)
  /\ sessions' # sessions
  /\ sout' = [seq |-> sout.seq + 1, op |-> "sweep", sid |-> "", result |-> "", was |-> -1]
  /\ UNCHANGED <<now, issued, sops, quotaVars, cacheVars, editVars, catVars, imgVars>>

SessionTick ==
  /\ (now \div HalfTimeout) + (now % HalfTimeout) < MaxSessTicks
  /\ \E d \in {1, HalfTimeout} : now' = now + d
  /\ UNCHANGED <<quotaVars, cacheVars, sessVars, editVars, catVars, imgVars>>

InitSession ==
  /\ sessions = <<>>
  /\ issued = {}
  /\ sout = NoSout
  /\ sops = 0

NextSession ==
  \/ CreateSession \/ CreateSessionThrow \/ GetSession \/ UpdateSessionActivity
  \/ EndSession \/ SessionSweep \/ SessionTick

\* =========================================================================
\* Transformation pipeline: POST /api/edit
\* =========================================================================
Reqs == {"r1", "r2"}

\* the uploaded part: absent, acceptable, over multer's fileSize limit, or of a
\* mimetype that is not image/*
Files == {"none", "ok", "tooLarge", "notImage"}

\* t1 is stored in the Template collection and known to TemplateService,
\* t2 is known to TemplateService only, zz is known to neither, "" is omitted
TemplateIds == {"", "t1", "t2", "zz"}

InDb(t) == t = "t1"

\* TemplateService.getTemplatePrompt(id) # null
InService(t) == t \in {"t1", "t2"}

\* what openaiService.editImage may reject with
UpstreamErrors == {"Error", "ExternalServiceError", "TimeoutError"}

\* JavaScript Numbers that are not whole are kept as fractions in lowest terms
RECURSIVE GCD(_, _)
GCD(a, b) == IF b = 0 THEN a ELSE GCD(b, a % b)

Frac(n, d) == LET g == GCD(n, d) IN [num |-> n \div g, den |-> d \div g]

FracEq(a, b) == a.num * b.den = b.num * a.den

FracLess(a, b) == a.num * b.den < b.num * a.den

\* the usage and analytics paths of a Template document, at their schema defaults
NewTemplate ==
  [totalUses |-> 0, successfulUses |-> 0, failedUses |-> 0,
   avgProcessingTime |-> Frac(0, 1),
   popularityScore |-> Frac(0, 1), userFeedback |-> <<>>, avgRating |-> Frac(0, 1)]

\* Template.findById(t): a document that remembers what it was loaded with
findById(db, t) == [loaded |-> TRUE, orig |-> db[t], cur |-> db[t]]

NoDoc == [loaded |-> FALSE, orig |-> NewTemplate, cur |-> NewTemplate]

\* edited: openaiService.editImage resolved; recErr: something inside the
\* analytics try block rejected; overlapped: another request was between its
\* first and last await while this one was; disconnected: the caller closed
\* the connection before the response was written
Idle == [pc |-> "idle", file |-> "none", templateId |-> "", header |-> "",
         validImage |-> FALSE, sessionId |-> "", startTime |-> 0,
         uploads |-> 0, transforms |-> 0, uploaded |-> FALSE, error |-> "",
         processingTime |-> 0, disconnected |-> FALSE,
         edited |-> FALSE, recErr |-> FALSE, overlapped |-> FALSE,
         doc1 |-> NoDoc, doc2 |-> NoDoc]

InFlight(q) == reqs[q].pc \notin {"idle", "done"}

\* request r suspends at its first await with the fields rec
Enter(r, rec) ==
  [q \in Reqs |->
     IF q = r THEN [rec EXCEPT !.overlapped = \E o \in Reqs \ {r} : InFlight(o)]
     ELSE IF InFlight(q) THEN [reqs[q] EXCEPT !.overlapped = TRUE]
     ELSE reqs[q]]

NoResponse == [sent |-> FALSE, status |-> 0, success |-> FALSE, code |-> "",
               sessionHeader |-> "", imageUrl |-> FALSE]

\* errorHandler + sendErrorResponse: status and code by the kind of error
ErrorResponse(kind) ==
  [sent |-> TRUE, success |-> FALSE, sessionHeader |-> "", imageUrl |-> FALSE,
   status |-> CASE kind = "ValidationError" -> 400
                [] kind = "NotFoundError" -> 404
                [] kind = "FileProcessingError" -> 422
                [] kind = "MulterError" -> 422
                [] kind = "ExternalServiceError" -> 502
                [] kind = "TimeoutError" -> 408
                [] OTHER -> 500,
   code |-> CASE kind = "ValidationError" -> "VALIDATION_ERROR"
              [] kind = "NotFoundError" -> "NOT_FOUND"
              [] kind = "FileProcessingError" -> "FILE_PROCESSING_ERROR"
              [] kind = "MulterError" -> "FILE_PROCESSING_ERROR"
              [] kind = "ExternalServiceError" -> "EXTERNAL_SERVICE_ERROR"
              [] kind = "TimeoutError" -> "TIMEOUT_ERROR"
              [] OTHER -> "INTERNAL_ERROR"]

\* the catch block of editImage rethrows; asyncHandler passes the error on
Fail(r, kind) ==
  /\ reqs' = [reqs EXCEPT ![r].pc = "done", ![r].error = kind]
  /\ response' = [response EXCEPT ![r] = ErrorResponse(kind)]

RECURSIVE SumRatings(_)
SumRatings(fb) == IF fb = <<>> THEN 0 ELSE Head(fb).rating + SumRatings(Tail(fb))

\* templateSchema.pre('save'): successfulUses * 0.7 + avgRating * 20 * 0.3 from
\* the avgRating the document holds, and only then the new avgRating
preSave(d) ==
  [d EXCEPT !.popularityScore = Frac(7 * d.successfulUses * d.avgRating.den
                                       + 60 * d.avgRating.num,
                                     10 * d.avgRating.den),
            !.avgRating = IF Len(d.userFeedback) > 0
                            THEN Frac(SumRatings(d.userFeedback), Len(d.userFeedback))
                            ELSE @]

\* the document's own side of templateSchema.methods.incrementUsage (the
\* definition in force, the later one), up to its save()
incrementUsage(doc, processingTime, success) ==
  LET totalUses == doc.cur.totalUses + 1
      avg == doc.cur.avgProcessingTime
  IN [doc EXCEPT !.cur.totalUses = totalUses,
                 !.cur.successfulUses = IF success THEN @ + 1 ELSE @,
                 !.cur.failedUses = IF success THEN @ ELSE @ + 1,
                 !.cur.avgProcessingTime =
                    IF processingTime # 0
                      THEN Frac(avg.num * (totalUses - 1) + processingTime * avg.den,
                                avg.den * totalUses)
                      ELSE @]

\* the document's own side of templateSchema.methods.addFeedback
addFeedback(doc, userId, rating) ==
  [doc EXCEPT !.cur.userFeedback =
                 Append(SelectSeq(@, LAMBDA f : f.userId # userId),
                        [userId |-> userId, rating |-> rating])]

\* document.save(): the pre-save hook, then $set of the paths whose value is
\* no longer the loaded one
save(db, t, doc) ==
  LET d == preSave(doc.cur)
  IN [db EXCEPT ![t] = [f \in DOMAIN d |-> IF d[f] # doc.orig[f] THEN d[f] ELSE db[t][f]]]

\* multer, then editImage up to its first await on the image service, for a
\* request with this file, templateId and x-session-id header
Arrive(r, file, t, valid, hdr) ==
  LET base == [Idle EXCEPT !.file = file, !.templateId = t, !.header = hdr,
                           !.validImage = valid, !.startTime = now]
  IN /\ reqs[r].pc = "idle"
     /\ ~response[r].sent
     /\ CASE file = "tooLarge" ->
               /\ reqs' = [reqs EXCEPT ![r] = [base EXCEPT !.pc = "done", !.error = "MulterError"]]
               /\ response' = [response EXCEPT ![r] = ErrorResponse("MulterError")]
               /\ UNCHANGED <<sessions, issued>>
          [] file = "notImage" ->
               /\ reqs' = [reqs EXCEPT ![r] = [base EXCEPT !.pc = "done", !.error = "Error"]]
               /\ response' = [response EXCEPT ![r] = ErrorResponse("Error")]
               /\ UNCHANGED <<sessions, issued>>
          [] file = "none" \/ (file = "ok" /\ t = "") ->
               /\ reqs' = [reqs EXCEPT ![r] = [base EXCEPT !.pc = "done", !.error = "ValidationError"]]
               /\ response' = [response EXCEPT ![r] = ErrorResponse("ValidationError")]
               /\ UNCHANGED <<sessions, issued>>
          [] OTHER ->
               IF hdr = ""
                 THEN \E sid \in SessionIds \ issued :
                        /\ issued' = issued \cup {sid}
                        /\ sessions' = updateSessionActivity(
                                         MapSet(sessions, sid,
                                                [sessionId |-> sid, userId |-> "none",
                                                 createdAt |-> now, lastActivity |-> now,
                                                 isActive |-> TRUE]), sid, now).sessions
                        /\ reqs' = Enter(r, [base EXCEPT !.pc = "validate", !.sessionId = sid])
                        /\ UNCHANGED response
                 ELSE /\ sessions' = updateSessionActivity(sessions, hdr, now).sessions
                      /\ reqs' = Enter(r, [base EXCEPT !.pc = "validate", !.sessionId = hdr])
                      /\ UNCHANGED <<issued, response>>
     /\ UNCHANGED <<now, tdb, editRecords, sout, sops, quotaVars, cacheVars, catVars, imgVars>>

StartEdit(r) ==
  \E file \in Files, t \in TemplateIds, valid \in BOOLEAN,
     hdr \in {""} \cup DOMAIN sessions \cup {"forged"} :
    Arrive(r, file, t, valid, hdr)

\* the same with the requests that are enough to take every path once:
\* no session header, an image or none, a stored or an unknown template
StartEditLive(r) ==
  \E file \in {"ok", "none"}, t \in {"t1", "zz"}, valid \in BOOLEAN :
    Arrive(r, file, t, valid, "")

\* await validateImage(buffer)
ValidateImage(r) ==
  /\ reqs[r].pc = "validate"
  /\ IF reqs[r].validImage
       THEN reqs' = [reqs EXCEPT ![r].pc = "optimize"] /\ UNCHANGED response
       ELSE Fail(r, "FileProcessingError")
  /\ UNCHANGED <<now, tdb, editRecords, sessVars, quotaVars, cacheVars, catVars, imgVars>>

\* await getImageMetadata(buffer); await optimizeImage(buffer, ...)
OptimizeImage(r) ==
  /\ reqs[r].pc = "optimize"
  /\ \/ reqs' = [reqs EXCEPT ![r].pc = "template"] /\ UNCHANGED response
     \/ Fail(r, "Error")
  /\ UNCHANGED <<now, tdb, editRecords, sessVars, quotaVars, cacheVars, catVars, imgVars>>

\* variant: an unresolved template does not stop the request
FindTemplate_noCheck(r) ==
  /\ reqs[r].pc = "template"
  /\ reqs' = [reqs EXCEPT ![r].pc = "upload"]
  /\ UNCHANGED response
  /\ UNCHANGED <<now, tdb, editRecords, sessVars, quotaVars, cacheVars, catVars, imgVars>>

\* await Template.findById(templateId), falling back to TemplateService
FindTemplate(r) ==
  /\ reqs[r].pc = "template"
  /\ \/ /\ InDb(reqs[r].templateId)
        /\ reqs' = [reqs EXCEPT ![r].pc = "upload",
                                ![r].doc1 = findById(tdb, reqs[r].templateId)]
        /\ UNCHANGED response
     \/ \* findById resolves to null or rejects: the prompt comes from the service
        /\ InService(reqs[r].templateId)
        /\ reqs' = [reqs EXCEPT ![r].pc = "upload"]
        /\ UNCHANGED response
     \/ /\ ~InService(reqs[r].templateId)
        /\ ~InDb(reqs[r].templateId)
        /\ Fail(r, "NotFoundError")
  /\ UNCHANGED <<now, tdb, editRecords, sessVars, quotaVars, cacheVars, catVars, imgVars>>

\* variant: a rejected upload is swallowed and the request goes on
UploadImage_goesOn(r) ==
  /\ reqs[r].pc = "upload"
  /\ \/ reqs' = [reqs EXCEPT ![r].pc = "edit", ![r].uploads = @ + 1, ![r].uploaded = TRUE]
     \/ reqs' = [reqs EXCEPT ![r].pc = "edit", ![r].uploads = @ + 1]
  /\ UNCHANGED response
  /\ UNCHANGED <<now, tdb, editRecords, sessVars, quotaVars, cacheVars, catVars, imgVars>>

\* await s3Service.uploadImage(...)
UploadImage(r) ==
  /\ reqs[r].pc = "upload"
  /\ \/ /\ reqs' = [reqs EXCEPT ![r].pc = "edit", ![r].uploads = @ + 1, ![r].uploaded = TRUE]
        /\ UNCHANGED response
     \/ /\ reqs' = [reqs EXCEPT ![r].pc = "done", ![r].uploads = @ + 1, ![r].error = "Error"]
        /\ response' = [response EXCEPT ![r] = ErrorResponse("Error")]
  /\ UNCHANGED <<now, tdb, editRecords, sessVars, quotaVars, cacheVars, catVars, imgVars>>

\* await openaiService.editImage(originalImageUrl, prompt)
EditImage(r) ==
  /\ reqs[r].pc = "edit"
  /\ \/ /\ reqs' = [reqs EXCEPT ![r].pc = "record", ![r].transforms = @ + 1,
                                ![r].edited = TRUE,
                                ![r].processingTime = now - reqs[r].startTime]
        /\ UNCHANGED response
     \/ \E kind \in UpstreamErrors :
          /\ reqs' = [reqs EXCEPT ![r].pc = "done", ![r].transforms = @ + 1, ![r].error = kind]
          /\ response' = [response EXCEPT ![r] = ErrorResponse(kind)]
  /\ UNCHANGED <<now, tdb, editRecords, sessVars, quotaVars, cacheVars, catVars, imgVars>>

\* variant: a rejected editSession.save() is not caught by editImage
RecordEditSession_uncaught(r) ==
  /\ reqs[r].pc = "record"
  /\ sessions' = getSession(sessions, reqs[r].sessionId, now).sessions
  /\ \/ /\ editRecords' = editRecords \cup
                            {[requestId |-> r, templateId |-> reqs[r].templateId,
                              sessionId |-> reqs[r].sessionId, status |-> "completed",
                              error |-> "", duration |-> reqs[r].processingTime]}
        /\ reqs' = [reqs EXCEPT ![r].pc = "usageLoad"]
        /\ UNCHANGED response
     \/ /\ reqs' = [reqs EXCEPT ![r].pc = "done", ![r].recErr = TRUE, ![r].error = "Error"]
        /\ response' = [response EXCEPT ![r] = ErrorResponse("Error")]
        /\ UNCHANGED editRecords
  /\ UNCHANGED <<now, tdb, issued, sout, sops, quotaVars, cacheVars, catVars, imgVars>>

\* getSession(sessionId); recordEditSession: await editSession.save()
RecordEditSession(r) ==
  /\ reqs[r].pc = "record"
  /\ sessions' = getSession(sessions, reqs[r].sessionId, now).sessions
  /\ \/ /\ editRecords' = editRecords \cup
                            {[requestId |-> r, templateId |-> reqs[r].templateId,
                              sessionId |-> reqs[r].sessionId, status |-> "completed",
                              error |-> "", duration |-> reqs[r].processingTime]}
        /\ reqs' = [reqs EXCEPT ![r].pc = "usageLoad"]
     \/ \* save rejects: recordEditSession rethrows, editImage logs and goes on
        /\ reqs' = [reqs EXCEPT ![r].pc = "respond", ![r].recErr = TRUE]
        /\ UNCHANGED editRecords
  /\ UNCHANGED <<now, tdb, response, issued, sout, sops, quotaVars, cacheVars, catVars, imgVars>>

\* recordEditSession: await Template.findById(templateId)
UsageLoad(r) ==
  /\ reqs[r].pc = "usageLoad"
  /\ \/ IF InDb(reqs[r].templateId)
          THEN reqs' = [reqs EXCEPT ![r].pc = "usageSave",
                                    ![r].doc2 = findById(tdb, reqs[r].templateId)]
          ELSE reqs' = [reqs EXCEPT ![r].pc = "usageOwn"]
     \/ \* findById rejects: caught in editImage
        reqs' = [reqs EXCEPT ![r].pc = "respond", ![r].recErr = TRUE]
  /\ UNCHANGED <<now, tdb, editRecords, response, sessVars, quotaVars, cacheVars, catVars, imgVars>>

\* recordEditSession: await template.incrementUsage(duration, status === 'completed')
UsageSave(r) ==
  /\ reqs[r].pc = "usageSave"
  /\ \/ /\ tdb' = save(tdb, reqs[r].templateId, incrementUsage(reqs[r].doc2, reqs[r].processingTime, TRUE))
        /\ reqs' = [reqs EXCEPT ![r].pc = "usageOwn", ![r].doc2 = incrementUsage(@, reqs[r].processingTime, TRUE)]
     \/ \* save rejects: caught in editImage
        /\ reqs' = [reqs EXCEPT ![r].pc = "respond", ![r].recErr = TRUE]
        /\ UNCHANGED tdb
  /\ UNCHANGED <<now, editRecords, response, sessVars, quotaVars, cacheVars, catVars, imgVars>>

\* editImage: await template.incrementUsage(processingTime, true) on the
\* document it loaded before the upload
UsageOwn(r) ==
  /\ reqs[r].pc = "usageOwn"
  /\ IF reqs[r].doc1.loaded
       THEN \/ /\ tdb' = save(tdb, reqs[r].templateId, incrementUsage(reqs[r].doc1, reqs[r].processingTime, TRUE))
               /\ reqs' = [reqs EXCEPT ![r].pc = "respond", ![r].doc1 = incrementUsage(@, reqs[r].processingTime, TRUE)]
            \/ /\ reqs' = [reqs EXCEPT ![r].pc = "respond", ![r].recErr = TRUE]
               /\ UNCHANGED tdb
       ELSE /\ reqs' = [reqs EXCEPT ![r].pc = "respond"]
            /\ UNCHANGED tdb
  /\ UNCHANGED <<now, editRecords, response, sessVars, quotaVars, cacheVars, catVars, imgVars>>

\* res.set('X-Session-ID', sessionId); res.json({success: true, ...})
Respond(r) ==
  /\ reqs[r].pc = "respond"
  /\ reqs' = [reqs EXCEPT ![r].pc = "done"]
  /\ response' = [response EXCEPT ![r] =
                    [sent |-> TRUE, status |-> 200, success |-> TRUE, code |-> "",
                     sessionHeader |-> reqs[r].sessionId, imageUrl |-> TRUE]]
  /\ UNCHANGED <<now, tdb, editRecords, sessVars, quotaVars, cacheVars, catVars, imgVars>>

EditTick ==
  /\ now + 500 <= MaxEditTime
  /\ now' = now + 500
  /\ UNCHANGED <<quotaVars, cacheVars, sessVars, editVars, catVars, imgVars>>

\* variant: the pipeline is abandoned when the caller goes away
Disconnect_aborts(r) ==
  /\ InFlight(r)
  /\ ~reqs[r].disconnected
  /\ reqs' = [reqs EXCEPT ![r].disconnected = TRUE, ![r].pc = "aborted"]
  /\ UNCHANGED <<now, tdb, editRecords, response, sessVars, quotaVars, cacheVars, catVars, imgVars>>

\* the caller closes the connection while editImage is suspended at an await:
\* editImage registers no 'close' or 'aborted' listener, so nothing else changes
Disconnect(r) ==
  /\ InFlight(r)
  /\ ~reqs[r].disconnected
  /\ reqs' = [reqs EXCEPT ![r].disconnected = TRUE]
  /\ UNCHANGED <<now, tdb, editRecords, response, sessVars, quotaVars, cacheVars, catVars, imgVars>>

\* the continuation of request r that runs when the promise it awaits settles
Continue(r) ==
  \/ ValidateImage(r) \/ OptimizeImage(r) \/ FindTemplate(r)
  \/ UploadImage(r) \/ EditImage(r) \/ RecordEditSession(r)
  \/ UsageLoad(r) \/ UsageSave(r) \/ UsageOwn(r) \/ Respond(r)

\* requests arrive, their callers may go away, and the event loop runs the
\* continuations
NextEditLive == \E r \in Reqs : StartEditLive(r) \/ Disconnect(r) \/ Continue(r)

\* the promises of the image, storage and database calls settle, and the
\* event loop then runs the continuation that awaits them
ServicesSettle ==
  \A r \in Reqs :
    WF_vars(\/ ValidateImage(r) \/ OptimizeImage(r) \/ FindTemplate(r)
            \/ UploadImage(r) \/ RecordEditSession(r)
            \/ UsageLoad(r) \/ UsageSave(r) \/ UsageOwn(r) \/ Respond(r))

\* openaiService.editImage waits for the transformation service for a bounded
\* time only: its promise resolves, or rejects (with a TimeoutError when the
\* wait ran out)
TransformationSettles == \A r \in Reqs : WF_vars(EditImage(r))

InitEdit ==
  /\ reqs = [r \in Reqs |-> Idle]
  /\ tdb = [t \in {t \in TemplateIds : InDb(t)} |-> NewTemplate]
  /\ editRecords = {}
  /\ response = [r \in Reqs |-> NoResponse]

NextEdit ==
  \/ \E r \in Reqs :
       \/ StartEdit(r) \/ ValidateImage(r) \/ OptimizeImage(r) \/ FindTemplate(r)
       \/ UploadImage(r) \/ EditImage(r) \/ RecordEditSession(r)
       \/ UsageLoad(r) \/ UsageSave(r) \/ UsageOwn(r) \/ Respond(r)
  \/ EditTick

\* =========================================================================
\* Template documents: usage and feedback writes
\* =========================================================================
\* the templates the database was seeded with
StoredIds == {"t1", "t2"}

FeedbackUsers == {"u1", "u2"}

\* userFeedback.rating: min 1, max 5
Ratings == {1, 5}

\* processing times in ms handed to incrementUsage
Durations == {100, 300}

\* const template = await Template.findById(id); await template.incrementUsage(d, success)
TemplateIncrementUsage ==
  \E t \in DOMAIN tdb, processingTime \in Durations, success \in BOOLEAN :
    /\ tdb[t].totalUses < MaxUses
    /\ tdb' = save(tdb, t, incrementUsage(findById(tdb, t), processingTime, success))
    /\ UNCHANGED <<now, reqs, editRecords, response, quotaVars, cacheVars, sessVars, catVars, imgVars>>

\* const template = await Template.findById(id); await template.addFeedback(userId, rating)
TemplateAddFeedback ==
  \E t \in DOMAIN tdb, userId \in FeedbackUsers, rating \in Ratings :
    /\ tdb' = save(tdb, t, addFeedback(findById(tdb, t), userId, rating))
    /\ UNCHANGED <<now, reqs, editRecords, response, quotaVars, cacheVars, sessVars, catVars, imgVars>>

NextTemplate == TemplateIncrementUsage \/ TemplateAddFeedback

\* =========================================================================
\* Catalog reads: GET /api/templates, /:id, /category/:category, /search
\* =========================================================================
\* Strings that are inspected character by character (titles, categories,
\* queries) are sequences of one-character strings; ids and cache keys are
\* strings.
toLowerCase(s) == [i \in 1..Len(s) |-> IF s[i] = "A" THEN "a" ELSE IF s[i] = "B" THEN "b" ELSE s[i]]

RECURSIVE TrimStart(_)
TrimStart(s) == IF s # <<>> /\ Head(s) = " " THEN TrimStart(Tail(s)) ELSE s

RECURSIVE TrimEnd(_)
TrimEnd(s) == IF s # <<>> /\ s[Len(s)] = " " THEN TrimEnd(SubSeq(s, 1, Len(s) - 1)) ELSE s

trim(s) == TrimEnd(TrimStart(s))

includes(s, q) == \E i \in 0..(Len(s) - Len(q)) : SubSeq(s, i + 1, i + Len(q)) = q

startsWith(s, q) == Len(q) <= Len(s) /\ SubSeq(s, 1, Len(q)) = q

CharRank(c) == CASE c = " " -> 0 [] c = "a" -> 1 [] c = "b" -> 2 [] OTHER -> 3

RECURSIVE localeCompare(_, _)
localeCompare(a, b) ==
  IF a = <<>> /\ b = <<>> THEN 0
  ELSE IF a = <<>> THEN -1
  ELSE IF b = <<>> THEN 1
  ELSE IF CharRank(Head(a)) < CharRank(Head(b)) THEN -1
  ELSE IF CharRank(Head(a)) > CharRank(Head(b)) THEN 1
  ELSE localeCompare(Tail(a), Tail(b))

\* the characters of s as one string
RECURSIVE Str(_)
Str(s) == IF s = <<>> THEN "" ELSE Head(s) \o Str(Tail(s))

\* JavaScript undefined as the value of a property
undefined == "undefined"

\* TemplateService.templates, as loadTemplates read them from templates.json
\* (none of them carries the optional description)
Templates ==
  << [id |-> "t1", title |-> <<"a", "b">>, category |-> <<"a">>, prompt |-> "prompt of t1"],
     [id |-> "t2", title |-> <<"B", "a">>, category |-> <<"b">>, prompt |-> "prompt of t2"],
     [id |-> "t3", title |-> <<"a">>, category |-> <<"a">>, prompt |-> "prompt of t3"] >>

Prompts == {Templates[i].prompt : i \in 1..Len(Templates)}

\* const { prompt, ...publicTemplate } = template
PublicTemplate(t) == [f \in (DOMAIN t) \ {"prompt"} |-> t[f]]

\* templates.map(template => publicTemplate)
PublicTemplates(seq) == [i \in 1..Len(seq) |-> PublicTemplate(seq[i])]

getAllTemplates == PublicTemplates(Templates)

\* TemplateService.getTemplateById: the matching templates (none or one)
getTemplateById(id) == SelectSeq(Templates, LAMBDA t : t.id = id)

\* variant: the prompt is copied into the result
getTemplatesByCategory_withPrompt(category) ==
  SelectSeq(Templates, LAMBDA t : t.category = category)

\* ({...template, prompt: undefined})
getTemplatesByCategory(category) ==
  LET found == SelectSeq(Templates, LAMBDA t : t.category = category)
  IN [i \in 1..Len(found) |-> [found[i] EXCEPT !.prompt = undefined]]

RECURSIVE Distinct(_)
Distinct(seq) ==
  IF seq = <<>> THEN <<>>
  ELSE LET front == Distinct(SubSeq(seq, 1, Len(seq) - 1))
           x == seq[Len(seq)]
       IN IF \E i \in 1..Len(front) : front[i] = x THEN front ELSE Append(front, x)

getCategories == Distinct([i \in 1..Len(Templates) |-> Templates[i].category])

\* the comparator of searchTemplates
Relevance(a, b, searchQuery) ==
  LET aTitle == toLowerCase(a.title)
      bTitle == toLowerCase(b.title)
  IN IF aTitle = searchQuery /\ bTitle # searchQuery THEN -1
     ELSE IF bTitle = searchQuery /\ aTitle # searchQuery THEN 1
     ELSE IF startsWith(aTitle, searchQuery) /\ ~startsWith(bTitle, searchQuery) THEN -1
     ELSE IF startsWith(bTitle, searchQuery) /\ ~startsWith(aTitle, searchQuery) THEN 1
     ELSE localeCompare(aTitle, bTitle)

\* Array.prototype.sort (stable): x goes behind everything that does not sort after it
RECURSIVE Insert(_, _, _)
Insert(sorted, x, q) ==
  IF sorted = <<>> THEN <<x>>
  ELSE IF Relevance(x, Head(sorted), q) < 0 THEN <<x>> \o sorted
  ELSE <<Head(sorted)>> \o Insert(Tail(sorted), x, q)

RECURSIVE Sort(_, _)
Sort(seq, q) ==
  IF seq = <<>> THEN <<>>
  ELSE Insert(Sort(SubSeq(seq, 1, Len(seq) - 1), q), seq[Len(seq)], q)

\* a Number that may be NaN
NaN == [nan |-> TRUE, n |-> 0]

Num(n) == [nan |-> FALSE, n |-> n]

\* the limit parameter as it arrives: omitted, or one of these texts
LimitParams == {"", "1", "20", "x"}

\* parseInt(limit) with limit = '20' when the parameter is omitted
parseLimit(limit) ==
  CASE limit = "" -> Num(20) [] limit = "1" -> Num(1) [] limit = "20" -> Num(20)
    [] OTHER -> NaN

\* Array.prototype.slice(0, limit)
slice0(seq, limit) ==
  IF limit.nan THEN <<>>
  ELSE IF limit.n >= 0 THEN SubSeq(seq, 1, IF limit.n < Len(seq) THEN limit.n ELSE Len(seq))
  ELSE SubSeq(seq, 1, Max(Len(seq) + limit.n, 0))

\* TemplateService.searchTemplates; category <<>> stands for an omitted category
searchTemplates(query, category, limit) ==
  LET searchQuery == trim(toLowerCase(query))
      filtered == IF category # <<>>
                    THEN SelectSeq(Templates, LAMBDA t :
                                     toLowerCase(t.category) = toLowerCase(category))
                    ELSE Templates
      results == SelectSeq(filtered, LAMBDA t :
                             \/ includes(toLowerCase(t.title), searchQuery)
                             \/ includes(toLowerCase(t.category), searchQuery))
  IN IF searchQuery = <<>> THEN <<>>
     ELSE PublicTemplates(slice0(Sort(results, searchQuery), limit))

generateTemplateKey(id) == "template:" \o id

generateCategoryKey(category) == "category:" \o Str(category)

generateSearchKey(query, category, limit) ==
  "search:" \o Str(query)
    \o (IF category # <<>> THEN ":" \o Str(category) ELSE "")
    \o (IF ~limit.nan /\ limit.n # 0
          THEN ":" \o (CASE limit.n = 1 -> "1" [] limit.n = 20 -> "20" [] OTHER -> "?")
          ELSE "")

generateAllTemplatesKey == "templates:all"

generateCategoriesKey == "categories:all"

\* res.json: JSON.stringify leaves out the properties whose value is undefined
Json(o) == [f \in {g \in DOMAIN o : ~(g = "prompt" /\ o[g] = undefined)} |-> o[f]]

\* a request without a q parameter
NoQuery == [present |-> FALSE, text |-> <<>>, category |-> <<>>, limit |-> ""]

NoCatResp == [seq |-> 0, handler |-> "", query |-> NoQuery,
              status |-> 0, success |-> FALSE, code |-> "",
              data |-> <<>>, cached |-> FALSE, reads |-> 0, writes |-> 0, searches |-> 0]

\* the handlers' common shape: cacheService.get(key); a truthy value (every
\* array and object is) is sent as it is, otherwise the fresh value is cached
\* for ttl and sent. calls is the number of searchTemplates invocations a miss makes
CachedRead(handler, q, key, fresh, ttl, calls) ==
  LET g == get(cache, key, now)
      hit == OMapHas(g.cache, key)
  IN /\ cache' = IF hit THEN g.cache ELSE set(g.cache, key, fresh, ttl, now)
     /\ catResp' = [seq |-> catResp.seq + 1, handler |-> handler, query |-> q,
                    status |-> 200,
                    success |-> TRUE, code |-> "",
                    data |-> IF hit THEN OMapGet(g.cache, key).data ELSE fresh,
                    cached |-> hit, reads |-> 1, writes |-> IF hit THEN 0 ELSE 1,
                    searches |-> IF hit THEN 0 ELSE calls]

\* a handler that throws before or after reading the cache
CatalogError(handler, q, kind, reads) ==
  catResp' = [seq |-> catResp.seq + 1, handler |-> handler, query |-> q,
              status |-> ErrorResponse(kind).status, success |-> FALSE,
              code |-> ErrorResponse(kind).code, data |-> <<>>, cached |-> FALSE,
              reads |-> reads, writes |-> 0, searches |-> 0]

GetAllTemplates ==
  /\ catResp.seq < MaxCatalogOps
  /\ CachedRead("getAllTemplates", NoQuery, generateAllTemplatesKey, getAllTemplates, 600000, 0)
  /\ UNCHANGED <<now, written, pending, fetches, out, cops, quotaVars, sessVars, editVars, imgVars>>

\* the single template is kept as a list of one
GetTemplateById ==
  \E id \in {"t1", "zz"} :
    LET key == generateTemplateKey(id)
        g == get(cache, key, now)
        template == getTemplateById(id)
    IN /\ catResp.seq < MaxCatalogOps
       /\ IF OMapHas(g.cache, key) \/ template # <<>>
            THEN CachedRead("getTemplateById", NoQuery, key, PublicTemplates(template), 900000, 0)
            ELSE /\ CatalogError("getTemplateById", NoQuery, "NotFoundError", 1)
                 /\ cache' = g.cache
       /\ UNCHANGED <<now, written, pending, fetches, out, cops, quotaVars, sessVars, editVars, imgVars>>

GetTemplatesByCategory ==
  \E category \in {<<"a">>, <<"c">>} :
    /\ catResp.seq < MaxCatalogOps
    /\ CachedRead("getTemplatesByCategory", NoQuery,
                 generateCategoryKey(category),
                  getTemplatesByCategory(category), 600000, 0)
    /\ UNCHANGED <<now, written, pending, fetches, out, cops, quotaVars, sessVars, editVars, imgVars>>

GetCategories ==
  /\ catResp.seq < MaxCatalogOps
  /\ CachedRead("getCategories", NoQuery, generateCategoriesKey, getCategories, 1800000, 0)
  /\ UNCHANGED <<now, written, pending, fetches, out, cops, quotaVars, sessVars, editVars, imgVars>>

\* the q parameter of a search request: left out, or a text
QueryParams ==
  {NoQuery}
    \cup {[NoQuery EXCEPT !.present = TRUE, !.text = s] :
            s \in {<<>>, <<" ">>, <<"a">>, <<"a", " ">>, <<"B">>, <<"a", ":", "a">>}}

\* variant: an empty query is searched for like any other
SearchTemplates_noCheck ==
  \E q \in QueryParams, category \in {<<>>, <<"a">>}, limit \in LimitParams :
    LET query == trim(q.text)
        lim == parseLimit(limit)
    IN /\ catResp.seq < MaxCatalogOps
       /\ CachedRead("searchTemplates", [q EXCEPT !.category = category, !.limit = limit],
                     generateSearchKey(query, category, lim),
                     searchTemplates(query, category, lim), 300000, 1)
       /\ UNCHANGED <<now, written, pending, fetches, out, cops, quotaVars, sessVars, editVars, imgVars>>

\* sanitizeInput (the query parameters trimmed), then searchTemplates
SearchTemplates ==
  \E q \in QueryParams, category \in {<<>>, <<"a">>}, limit \in LimitParams :
    LET query == trim(q.text)
        lim == parseLimit(limit)
    IN /\ catResp.seq < MaxCatalogOps
       /\ IF ~q.present \/ query = <<>>
            THEN /\ CatalogError("searchTemplates",
                                 [q EXCEPT !.category = category, !.limit = limit],
                                 "ValidationError", 0)
                 /\ UNCHANGED cache
            ELSE CachedRead("searchTemplates",
                            [q EXCEPT !.category = category, !.limit = limit],
                            generateSearchKey(query, category, lim),
                            searchTemplates(query, category, lim), 300000, 1)
       /\ UNCHANGED <<now, written, pending, fetches, out, cops, quotaVars, sessVars, editVars, imgVars>>

CatalogTick ==
  /\ now + 300000 <= MaxCatalogTime
  /\ now' = now + 300000
  /\ UNCHANGED <<quotaVars, cacheVars, sessVars, editVars, catVars, imgVars>>

InitCatalog == catResp = NoCatResp

NextCatalog ==
  \/ GetAllTemplates \/ GetTemplateById \/ GetTemplatesByCategory \/ GetCategories
  \/ SearchTemplates \/ CatalogTick

\* =========================================================================
\* Image sizes: validateImage, then calculateDimensions inside optimizeImage
\* =========================================================================
\* metadata.width and metadata.height of the uploads tried
Sides == {5, 10, 15, 100, 3000, 10000, 20000}

\* opts.maxWidth, opts.maxHeight: the default and a thumbnail-sized override
Maxima == {100, 2048}

\* Math.round(n / d) for n >= 0, d > 0
Round(n, d) == (2 * n + d) \div (2 * d)

\* the dimension checks of validateImage
validateImage(width, height) ==
  /\ ~(width < 10 \/ height < 10)
  /\ ~(width > 10000 \/ height > 10000)

\* calculateDimensions: aspectRatio = originalWidth / originalHeight, kept exact
calculateDimensions(originalWidth, originalHeight, maxWidth, maxHeight) ==
  LET scaleW == originalWidth > maxWidth
      width1 == IF scaleW THEN maxWidth ELSE originalWidth
      height1 == IF scaleW THEN Round(width1 * originalHeight, originalWidth)
                 ELSE originalHeight
      scaleH == height1 > maxHeight
      height2 == IF scaleH THEN maxHeight ELSE height1
      width2 == IF scaleH THEN Round(height2 * originalWidth, originalHeight)
                ELSE width1
  IN [width |-> width2, height |-> height2]

NoDims == [stage |-> "none", originalWidth |-> 0, originalHeight |-> 0,
           maxWidth |-> 0, maxHeight |-> 0, width |-> 0, height |-> 0]

\* await this.imageOptimizationService.validateImage(req.file.buffer)
ValidateDimensions ==
  /\ dims.stage = "uploaded"
  /\ dims' = [dims EXCEPT !.stage = IF validateImage(dims.originalWidth, dims.originalHeight)
                                      THEN "valid" ELSE "rejected"]
  /\ UNCHANGED <<now, quotaVars, cacheVars, sessVars, editVars, catVars>>

\* optimizeImage: const { width, height } = this.calculateDimensions(...)
CalculateDimensions ==
  /\ dims.stage = "valid"
  /\ LET d == calculateDimensions(dims.originalWidth, dims.originalHeight,
                                  dims.maxWidth, dims.maxHeight)
     IN dims' = [dims EXCEPT !.stage = "sized", !.width = d.width, !.height = d.height]
  /\ UNCHANGED <<now, quotaVars, cacheVars, sessVars, editVars, catVars>>

InitImage == dims = NoDims

NextImage == ValidateDimensions \/ CalculateDimensions

\* the state after module load: every store is empty
Init ==
  /\ now = 0
  /\ limits = [c \in Classes |-> IF c = "templates"
                                   THEN [windowMs |-> 2000, maxRequests |-> 2]
                                   ELSE [windowMs |-> 1500, maxRequests |-> 1]]
  /\ InitQuota
  /\ InitCache
  /\ InitSession
  /\ InitEdit
  /\ InitCatalog
  /\ InitImage

\* the admission controller, for each assignment of configurations to classes
InitQ ==
  /\ now = 0
  /\ limits \in {l \in [Classes -> Configs] : l["templates"] # l["imageEdit"]}
  /\ InitQuota
  /\ InitCache
  /\ InitSession
  /\ InitEdit
  /\ InitCatalog
  /\ InitImage

\* every seeded template is stored, none has been used or rated
InitT ==
  /\ now = 0
  /\ limits = [c \in Classes |-> IF c = "templates"
                                   THEN [windowMs |-> 2000, maxRequests |-> 2]
                                   ELSE [windowMs |-> 1500, maxRequests |-> 1]]
  /\ InitQuota
  /\ InitCache
  /\ InitSession
  /\ reqs = [r \in Reqs |-> Idle]
  /\ tdb = [t \in StoredIds |-> NewTemplate]
  /\ editRecords = {}
  /\ response = [r \in Reqs |-> NoResponse]
  /\ InitCatalog
  /\ InitImage

\* the admission controller with the shipped configurations
InitS ==
  /\ now = 0
  /\ limits = rateLimits
  /\ store = <<>>
  /\ admitted = [k \in {getKey(ip, SearchPath) : ip \in SearchIps} |-> <<>>]
  /\ resp = NoResp
  /\ nreq = 0
  /\ InitCache
  /\ InitSession
  /\ InitEdit
  /\ InitCatalog
  /\ InitImage

\* an upload of each size, to be optimized under each pair of maxima
InitD ==
  /\ now = 0
  /\ limits = rateLimits
  /\ InitQuota
  /\ InitCache
  /\ InitSession
  /\ InitEdit
  /\ InitCatalog
  /\ dims \in {[NoDims EXCEPT !.stage = "uploaded", !.originalWidth = w, !.originalHeight = h,
                               !.maxWidth = mw, !.maxHeight = mh] :
                 w \in Sides, h \in Sides, mw \in Maxima, mh \in Maxima}

Next == NextQuota \/ NextSearchQuota \/ NextCache \/ NextFill \/ NextSession \/ NextEdit \/ NextTemplate \/ NextCatalog
          \/ NextImage \/ NextEditLive

Spec == Init /\ [][Next]_vars

SpecQuota == InitQ /\ [][NextQuota]_vars

SpecSearchQuota == InitS /\ [][NextSearchQuota]_vars

SpecCache == Init /\ [][NextCache]_vars

SpecFill == Init /\ [][NextFill]_vars

SpecSession == Init /\ [][NextSession]_vars

SpecEdit == Init /\ [][NextEdit]_vars

SpecEditLive ==
  Init /\ [][NextEditLive]_vars /\ ServicesSettle /\ TransformationSettles

SpecTemplate == InitT /\ [][NextTemplate]_vars

SpecCatalog == Init /\ [][NextCatalog]_vars

SpecImage == InitD /\ [][NextImage]_vars

\* ------------------------------------------------------------------------
\* Admission controller: properties
\* ------------------------------------------------------------------------
RECURSIVE WindowStartAt(_, _, _)
\* the instant that opened the fixed window in which the i-th admitted call
\* of a key falls; a window opened at s covers [s, s + W]
WindowStartAt(log, W, i) ==
  IF i = 1 THEN log[1]
  ELSE LET s == WindowStartAt(log, W, i - 1)
       IN IF log[i] > s + W THEN log[i] ELSE s

CurrentWindowStart(log, W) == WindowStartAt(log, W, Len(log))

AdmittedInWindow(log, W) ==
  IF Len(log) = 0 THEN 0
  ELSE Cardinality({i \in 1..Len(log) : log[i] >= CurrentWindowStart(log, W)})

RECURSIVE SumOver(_, _)
SumOver(S, f) ==
  IF S = {} THEN 0
  ELSE LET x == CHOOSE y \in S : TRUE IN f[x] + SumOver(S \ {x}, f)

\* the response in the next state answers a request of (ip, path) made now
AnswersNow(ip, path) == resp'.seq = nreq + 1 /\ resp'.ip = ip /\ resp'.path = path

C1_Ceiling ==
  \A ip \in Ips, path \in Paths :
    AdmittedInWindow(admitted[getKey(ip, path)], limits[RouteClass(path)].windowMs)
      <= limits[RouteClass(path)].maxRequests

C1_DenyStep ==
  \A ip \in Ips, path \in Paths :
    LET log == admitted[getKey(ip, path)]
        W == limits[RouteClass(path)].windowMs
        N == limits[RouteClass(path)].maxRequests
    IN (/\ AnswersNow(ip, path)
        /\ Len(log) > 0
        /\ now <= CurrentWindowStart(log, W) + W
        /\ AdmittedInWindow(log, W) >= N)
       => /\ resp'.status = 429
          /\ resp'.resetTime - now <= W
          /\ resp'.retryAfter <= Ceil(W, 1000)

\* C1: per quota key, never more than maxRequests calls are let through inside
\* one fixed window; a call made while the window is live and full is denied,
\* and the wait the denial announces is at most the window length: resetTime -
\* now <= windowMs, and the Retry-After seconds are at most windowMs in seconds.
C1_QuotaFixedWindow == []C1_Ceiling /\ [][C1_DenyStep]_vars

\* a full two-call window has just turned a third call away
C1_Witness ==
  /\ resp.status = 429 /\ resp.maxRequests = 2 /\ resp.seq = nreq
  /\ Len(admitted[getKey(resp.ip, resp.path)]) = 2

ClassAdmittedSince(ip, c, t) ==
  SumOver({p \in Paths : RouteClass(p) = c},
          [p \in Paths |->
             Cardinality({i \in 1..Len(admitted[getKey(ip, p)]) :
                            admitted[getKey(ip, p)][i] >= t})])

\* C2: the requests of one caller that belong to one operation class share one
\* window: when a request is let through, the caller has had at most
\* maxRequests requests of that class let through since that window opened.
C2_ClassSharedWindow ==
  resp.status = 200 =>
    ClassAdmittedSince(resp.ip, RouteClass(resp.path), resp.resetTime - resp.windowMs)
      <= resp.maxRequests

C3_SweepNeutral ==
  \A ip \in Ips, path \in Paths :
    LET key == getKey(ip, path)
        config == limits[RouteClass(path)]
        kept == isAllowed(store, key, config, now)
        swept == isAllowed(cleanup(store, now), key, config, now)
    IN /\ swept.allowed = kept.allowed
       /\ (key \in DOMAIN swept.store) = (key \in DOMAIN kept.store)
       /\ key \in DOMAIN kept.store => swept.store[key] = kept.store[key]

C3_ResetStep ==
  \A ip \in Ips, path \in Paths :
    LET key == getKey(ip, path)
        log == admitted[key]
        W == limits[RouteClass(path)].windowMs
    IN (/\ AnswersNow(ip, path)
        /\ Len(log) > 0
        /\ now > CurrentWindowStart(log, W) + W)
       => /\ resp'.status = 200
          /\ key \in DOMAIN store'
          /\ store'[key] = [count |-> 1, resetTime |-> now + W]

\* C3: the first call after a window's resetTime is let through and leaves the
\* window {count: 1, resetTime: now + windowMs}, whatever the old count was;
\* running the sweep first changes neither the verdict nor the window.
C3_ResetAfterExpiry == []C3_SweepNeutral /\ [][C3_ResetStep]_vars

\* a window that had reached its ceiling of two was replaced by a fresh one
C3_Witness ==
  /\ resp.status = 200 /\ resp.maxRequests = 2 /\ resp.seq = nreq
  /\ Len(admitted[getKey(resp.ip, resp.path)]) = 3
  /\ getKey(resp.ip, resp.path) \in DOMAIN store
  /\ store[getKey(resp.ip, resp.path)] = [count |-> 1, resetTime |-> now + resp.windowMs]

\* ------------------------------------------------------------------------
\* Content cache: properties
\* ------------------------------------------------------------------------
\* C4: a value set with ttl > 0 at t0, and not since overwritten, deleted or
\* evicted, is what get returns (and has is true) at every instant before
\* t0 + ttl, and is absent for get and has at every instant after t0 + ttl,
\* swept or not.
C4_TtlVisibility ==
  \A k \in DOMAIN written :
    written[k].ttl > 0 =>
      /\ now < written[k].at + written[k].ttl =>
            /\ get(cache, k, now).value = written[k].data
            /\ has(cache, k, now).value = TRUE
      /\ now > written[k].at + written[k].ttl =>
            /\ get(cache, k, now).value = null
            /\ has(cache, k, now).value = FALSE

\* an entry past its expiry that no sweep or read has removed yet
C4_Witness ==
  \E k \in DOMAIN written :
    /\ written[k].ttl > 0
    /\ now > written[k].at + written[k].ttl
    /\ OMapHas(cache, k)
    /\ OMapGet(cache, k).data = written[k].data

\* the entry least recently accessed, the earlier inserted one on a tie
LeastRecent(m) ==
  CHOOSE k \in OMapKeys(m) :
    \A j \in OMapKeys(m) \ {k} :
      \/ OMapGet(m, k).lastAccessed < OMapGet(m, j).lastAccessed
      \/ /\ OMapGet(m, k).lastAccessed = OMapGet(m, j).lastAccessed
         /\ OMapIdx(m, k) < OMapIdx(m, j)

C5_SetStep ==
  (/\ out'.seq = out.seq + 1
   /\ out'.op = "set"
   /\ ~OMapHas(cache, out'.key)
   /\ Len(cache) = maxSize)
  => /\ OMapKeys(cache') = (OMapKeys(cache) \ {LeastRecent(cache)}) \cup {out'.key}
     /\ \A k \in OMapKeys(cache) :
          (/\ OMapGet(cache, k).accessCount > 0
           /\ \A j \in OMapKeys(cache) \ {k} :
                 OMapGet(cache, j).lastAccessed < OMapGet(cache, k).lastAccessed)
          => OMapHas(cache', k)

\* C5: set of a new key on a full cache removes exactly one entry, the least
\* recently accessed one (insertion order breaks ties), and never an entry that
\* get read after every other entry was last accessed.
C5_EvictsLeastRecent == [][C5_SetStep]_vars

C6_BeginStep ==
  \A key \in CacheKeys :
    (/\ cops' = cops + 1
     /\ out'.op \in {"getOrSet", "fetch"}
     /\ out'.key = key)
    => IF OMapHas(cache, key) /\ now <= OMapGet(cache, key).expiresAt
         THEN /\ fetches' = fetches
              /\ out'.op = "getOrSet"
              /\ out'.result = OMapGet(cache, key).data
         ELSE /\ fetches' = fetches + 1
              /\ out'.op = "fetch"

C6_EndStep ==
  \A c \in DOMAIN pending :
    (/\ out'.seq = out.seq + 1
     /\ out'.op = "getOrSet"
     /\ out'.caller = c
     /\ c \notin DOMAIN pending')
    => /\ fetches' = fetches
       /\ OMapHas(cache', pending[c].key)
       /\ OMapGet(cache', pending[c].key).data = out'.result
       /\ pending[c].ttl > 0 =>
             OMapGet(cache', pending[c].key).expiresAt = now + pending[c].ttl

\* C6: getOrSet on a present, unexpired key returns the stored value and does
\* not invoke the fetcher, whatever the stored value; on a missing or expired
\* key it invokes the fetcher once, stores what it produced under the key with
\* the given ttl and returns it.
C6_GetOrSet == [][C6_BeginStep /\ C6_EndStep]_vars

\* ------------------------------------------------------------------------
\* Session ledger: properties
\* ------------------------------------------------------------------------
SessionCall(name, sid) ==
  sops' = sops + 1 /\ sout'.op = name /\ sout'.sid = sid

C7_GetStep ==
  \A sid \in DOMAIN sessions :
    SessionCall("get", sid) =>
      /\ now - sessions[sid].lastActivity > sessionTimeout =>
            sout'.result = "null" /\ sid \notin DOMAIN sessions'
      /\ now - sessions[sid].lastActivity < sessionTimeout =>
            /\ sout'.result = "session"
            /\ sid \in DOMAIN sessions'
            /\ sessions'[sid].lastActivity = now

\* a session that is not idle for longer than the timeout leaves the ledger
\* only by endSession
C7_KeptStep ==
  \A sid \in DOMAIN sessions :
    (now - sessions[sid].lastActivity < sessionTimeout /\ sid \notin DOMAIN sessions')
      => SessionCall("end", sid)

\* C7: getSession on a session idle for more than sessionTimeout returns null
\* and removes it; getSession on a session idle for less returns it and sets
\* lastActivity to now, and neither a read nor the sweep removes such a
\* session, so reads at shorter intervals keep it alive.
C7_SessionIdleExpiry == [][C7_GetStep /\ C7_KeptStep]_vars

\* getSession has just found a session idle for more than the timeout
C7_Witness ==
  /\ sout.op = "get" /\ sout.result = "null"
  /\ sout.was >= 0 /\ now - sout.was > sessionTimeout
  /\ sout.sid \in issued /\ sout.sid \notin DOMAIN sessions

\* getSession has just extended a session it read before the timeout ran out
C7_WitnessKept ==
  /\ sout.op = "get" /\ sout.result = "session"
  /\ sout.was >= 0 /\ now > sout.was
  /\ sessions[sout.sid].lastActivity = now

C8_TouchStep ==
  \A sid \in TokenIds :
    SessionCall("touch", sid) =>
      IF \/ sid \notin DOMAIN sessions
         \/ ~sessions[sid].isActive
         \/ now - sessions[sid].lastActivity > sessionTimeout
        THEN sout'.result = "false" /\ sessions' = sessions
        ELSE sout'.result = "true" /\ sessions'[sid].lastActivity = now

\* C8: updateSessionActivity returns false and changes nothing for an unknown
\* id, an ended session and a session idle for more than sessionTimeout, swept
\* or not; otherwise it returns true and sets lastActivity to now.
C8_TouchRejectsExpired == [][C8_TouchStep]_vars

\* ------------------------------------------------------------------------
\* Transformation pipeline: properties
\* ------------------------------------------------------------------------
\* the request carries no file, an oversized file, something that is not an
\* accepted image, no templateId, or a templateId no catalog resolves
Unacceptable(r) ==
  /\ reqs[r].pc # "idle"
  /\ \/ reqs[r].file # "ok"
     \/ ~reqs[r].validImage
     \/ reqs[r].templateId = ""
     \/ (~InDb(reqs[r].templateId) /\ ~InService(reqs[r].templateId))

\* C9: a request rejected for its file or its templateId never reaches the
\* object store or the transformation service, leaves no edit record, and
\* ends with a failure response.
C9_RejectedBeforeSideEffects ==
  \A r \in Reqs :
    Unacceptable(r) =>
      /\ reqs[r].uploads = 0
      /\ reqs[r].transforms = 0
      /\ \A rec \in editRecords : rec.requestId # r
      /\ reqs[r].pc = "done" => (response[r].sent /\ ~response[r].success)

\* a valid image with an unknown template has been answered NOT_FOUND
C9_Witness ==
  \E r \in Reqs :
    /\ reqs[r].pc = "done"
    /\ reqs[r].file = "ok" /\ reqs[r].validImage /\ reqs[r].templateId = "zz"
    /\ response[r].code = "NOT_FOUND"
    /\ reqs[r].uploads = 0

\* C10: when the upload succeeded and the transformation service then failed
\* or timed out, the response is a failure with an upstream-error code and a
\* failed edit record with its error set exists for the request.
C10_FailedEditRecorded ==
  \A r \in Reqs :
    (/\ reqs[r].pc = "done"
     /\ reqs[r].uploaded
     /\ reqs[r].transforms = 1
     /\ reqs[r].error # "")
    => /\ response[r].sent
       /\ ~response[r].success
       /\ response[r].code \in {"EXTERNAL_SERVICE_ERROR", "TIMEOUT_ERROR"}
       /\ \E rec \in editRecords :
            rec.requestId = r /\ rec.status = "failed" /\ rec.error # ""

\* C11: a request that was accepted and has been answered has exactly one
\* edit record, and the status of that record is the terminal status of the
\* request: completed if it was answered with success, failed otherwise.
C11_TerminalOnce ==
  \A r \in Reqs :
    (reqs[r].pc = "done" /\ ~Unacceptable(r) /\ ~reqs[r].recErr) =>
      LET recs == {rec \in editRecords : rec.requestId = r}
      IN /\ Cardinality(recs) = 1
         /\ \A rec \in recs :
              rec.status = IF response[r].success THEN "completed" ELSE "failed"

\* an accepted request for the stored template that has been answered
Counted(r) ==
  reqs[r].pc = "done" /\ ~Unacceptable(r) /\ reqs[r].templateId = "t1"

\* C12: when the requests ran one after another and no analytics write was
\* rejected, the stored template's totalUses is the number of answered
\* requests for it and its successfulUses the number of those that completed.
C12_UsageCounts ==
  (\A r \in Reqs : /\ ~InFlight(r)
                   /\ ~reqs[r].overlapped
                   /\ ~reqs[r].recErr)
  => /\ tdb["t1"].totalUses = Cardinality({r \in Reqs : Counted(r)})
     /\ tdb["t1"].successfulUses =
          Cardinality({r \in Reqs : Counted(r) /\ response[r].success})

\* C13: a request is answered with success and its result URL exactly when the
\* transformation service produced a result, whatever became of the edit
\* record and of the usage writes.
C13_RecordingNeverMasks ==
  \A r \in Reqs :
    response[r].sent =>
      /\ response[r].success = reqs[r].edited
      /\ reqs[r].edited => (response[r].status = 200 /\ response[r].imageUrl)
      /\ reqs[r].error # "" => ~response[r].success

\* an analytics write was rejected and the request was answered with success
C13_Witness ==
  \E r \in Reqs :
    /\ reqs[r].recErr
    /\ reqs[r].edited
    /\ response[r].sent /\ response[r].success /\ response[r].imageUrl
    /\ \A rec \in editRecords : rec.requestId # r

\* ------------------------------------------------------------------------
\* Admission controller: the retry-after hint
\* ------------------------------------------------------------------------
C17_DenyStep ==
  (resp'.seq # resp.seq /\ resp'.status = 429) =>
    /\ resp'.retryAfter > 0
    /\ (resp'.retryAfter - 1) * 1000 < resp'.resetTime - now
    /\ resp'.resetTime - now <= resp'.retryAfter * 1000

\* C17: every denial carries a Retry-After that is greater than 0 and is
\* resetTime - now, in whole seconds rounded up.
C17_RetryAfterPositive == [][C17_DenyStep]_vars

\* ------------------------------------------------------------------------
\* Content cache: overwriting and overlapping fills
\* ------------------------------------------------------------------------
C18_SetStep ==
  (/\ out'.seq # out.seq
   /\ out'.op = "set"
   /\ OMapHas(cache, out'.key)
   /\ written'[out'.key].ttl > 0)
  => LET k == out'.key
         w == written'[k]
         e == OMapGet(cache', k)
     IN /\ w.at = now
        /\ get(cache', k, now).value = w.data
        /\ get(cache', k, now + w.ttl).value = w.data
        /\ get(cache', k, now + w.ttl + 1).value = null
        /\ e.expiresAt = now + w.ttl
        /\ e.createdAt = now /\ e.lastAccessed = now /\ e.accessCount = 0

\* C18: set(key, v2, ttl2) with ttl2 > 0 on a key that holds a value leaves an
\* entry that reads v2 up to now + ttl2 and not after, with fresh creation
\* time and access statistics.
C18_OverwriteResets == [][C18_SetStep]_vars

\* the last call was a set at a later instant on a key that was already
\* there (it kept its place in the Map, ahead of a key inserted after it)
C18_Witness ==
  /\ out.op = "set"
  /\ now > 0
  /\ OMapHas(cache, out.key)
  /\ OMapIdx(cache, out.key) < Len(cache)
  /\ written[out.key].ttl > 0
  /\ written[out.key].at = now

\* a second getOrSet for a key that is missing while a first one is awaiting
\* its fetcher invokes a fetcher of its own
C19_BeginStep ==
  \A c \in ConcurrentCallers :
    (/\ cops' = cops + 1
     /\ out'.caller = c
     /\ get(cache, out'.key, now).value = null
     /\ \E c2 \in DOMAIN pending : c2 # c /\ pending[c2].key = out'.key)
    => /\ out'.op = "fetch"
       /\ fetches' = fetches + 1
       /\ c \in DOMAIN pending' /\ pending'[c].key = out'.key
       /\ \A c2 \in DOMAIN pending : c2 \in DOMAIN pending' /\ pending'[c2] = pending[c2]

\* a caller whose fetcher resolves stores that value at that instant and
\* returns it, and leaves the other callers waiting
C19_EndStep ==
  \A c \in DOMAIN pending :
    (/\ out'.seq = out.seq + 1
     /\ out'.op = "getOrSet"
     /\ out'.caller = c
     /\ c \notin DOMAIN pending')
    => /\ fetches' = fetches
       /\ OMapHas(cache', pending[c].key)
       /\ OMapGet(cache', pending[c].key).data = out'.result
       /\ OMapGet(cache', pending[c].key).createdAt = now
       /\ written'[pending[c].key].data = out'.result
       /\ written'[pending[c].key].at = now
       /\ \A c2 \in (DOMAIN pending) \ {c} :
            c2 \in DOMAIN pending' /\ pending'[c2] = pending[c2]

\* C19: overlapping getOrSet calls for one missing key each invoke their own
\* fetcher, each returns what its own fetcher produced, and after each store
\* the cache holds the value stored by it, so in the end the one stored last.
C19_NoSingleFlight == [][C19_BeginStep /\ C19_EndStep]_vars

\* two fetchers ran for one key; one caller has stored and returned its
\* value while the other is still waiting for its own
C19_Witness ==
  \E c \in DOMAIN pending :
    /\ fetches = 2
    /\ out.op = "getOrSet"
    /\ out.caller # c
    /\ out.key = pending[c].key
    /\ OMapHas(cache, out.key)
    /\ OMapGet(cache, out.key).data = out.result

\* ------------------------------------------------------------------------
\* Template documents: properties
\* ------------------------------------------------------------------------
\* successfulUses * 0.7 + avgRating * 20 * 0.3 of a stored document
ScoreOf(d) == Frac(7 * d.successfulUses * d.avgRating.den + 60 * d.avgRating.num,
                   10 * d.avgRating.den)

\* C15: the popularityScore of every stored template is the weighted sum of
\* the successfulUses and the avgRating stored with it.
C15_ScoreMatchesStored ==
  \A t \in DOMAIN tdb : FracEq(tdb[t].popularityScore, ScoreOf(tdb[t]))

\* C16: of two stored templates with the same avgRating, the one with more
\* successfulUses has the strictly greater popularityScore.
C16_ScoreMonotone ==
  \A a, b \in DOMAIN tdb :
    (/\ FracEq(tdb[a].avgRating, tdb[b].avgRating)
     /\ tdb[a].successfulUses > tdb[b].successfulUses)
    => FracLess(tdb[b].popularityScore, tdb[a].popularityScore)

C27_UseStep ==
  \A t \in DOMAIN tdb, d \in Durations, success \in BOOLEAN :
    (/\ tdb'[t].totalUses = tdb[t].totalUses + 1
     /\ tdb' = save(tdb, t, incrementUsage(findById(tdb, t), d, success)))
    => IF success
         THEN LET old == tdb[t].avgProcessingTime
                  n == tdb'[t].successfulUses
              IN FracEq(tdb'[t].avgProcessingTime,
                        Frac(old.num * (n - 1) + d * old.den, old.den * n))
         ELSE tdb'[t].avgProcessingTime = tdb[t].avgProcessingTime

\* C27: a failed use leaves avgProcessingTime as it was, and a successful use
\* of duration d makes it (old * (successfulUses - 1) + d) / successfulUses,
\* successfulUses being the count after the increment.
C27_MeanOfSuccessfulUses == [][C27_UseStep]_vars

C20_SearchStep ==
  (/\ catResp'.seq # catResp.seq
   /\ catResp'.handler = "searchTemplates"
   /\ (~catResp'.query.present \/ trim(catResp'.query.text) = <<>>))
  => /\ ~catResp'.success
     /\ catResp'.status = 400
     /\ catResp'.code = "VALIDATION_ERROR"
     /\ catResp'.searches = 0
     /\ catResp'.reads = 0 /\ catResp'.writes = 0
     /\ cache' = cache

\* C20: a search whose q parameter is missing, or empty once trimmed, is
\* answered 400 VALIDATION_ERROR; TemplateService.searchTemplates is not
\* called and the cache is left exactly as it was.
C20_EmptySearchRejected == [][C20_SearchStep]_vars

\* a query of blanks was rejected while the cache held entries
C20_Witness ==
  /\ catResp.handler = "searchTemplates"
  /\ catResp.query.present
  /\ catResp.query.text = <<" ">>
  /\ catResp.code = "VALIDATION_ERROR"
  /\ Len(cache) > 0

\* =========================================================================
\* Transformation pipeline: session token, uploads, overlapping usage writes
\* =========================================================================
\* C21: a transform request that arrived without an x-session-id header and
\* for which a session was minted is answered with that session id in the
\* X-Session-ID header, and the session is in the ledger.
C21_MintedTokenReturned ==
  \A r \in Reqs :
    (reqs[r].pc = "done" /\ reqs[r].header = "" /\ reqs[r].sessionId # "")
    => /\ reqs[r].sessionId \in issued
       /\ response[r].sent
       /\ response[r].sessionHeader = reqs[r].sessionId

\* C25: a request whose upload of the optimized original was rejected has
\* ended, was answered with a failure, and the transformation service was not
\* called for it.
C25_UploadFailureTerminal ==
  \A r \in Reqs :
    (reqs[r].uploads > 0 /\ ~reqs[r].uploaded)
    => /\ reqs[r].pc = "done"
       /\ reqs[r].transforms = 0
       /\ ~reqs[r].edited
       /\ response[r].sent
       /\ ~response[r].success
       /\ response[r].status = 500

\* an upload was rejected while another request went on to be transformed
C25_Witness ==
  \E r, o \in Reqs :
    /\ reqs[r].uploads = 1 /\ ~reqs[r].uploaded
    /\ reqs[r].pc = "done"
    /\ response[r].code = "INTERNAL_ERROR"
    /\ o # r /\ reqs[o].transforms = 1

Completed == {r \in Reqs : Counted(r) /\ response[r].success}

\* C24: once every request has been answered and no analytics write was
\* rejected, totalUses and successfulUses of the stored template have each
\* grown by the number of completed requests, however the requests overlapped.
C24_NoLostIncrement ==
  (\A r \in Reqs : ~InFlight(r) /\ ~reqs[r].recErr)
  => /\ tdb["t1"].totalUses = Cardinality(Completed)
     /\ tdb["t1"].successfulUses = Cardinality(Completed)

\* =========================================================================
\* Admission controller as shipped: properties
\* =========================================================================
\* the calls of the caller's current window so far, when that window is
\* still open at this instant
CallsInOpenWindow(ip) ==
  LET log == admitted[getKey(ip, SearchPath)]
      W == rateLimits.search.windowMs
  IN IF Len(log) > 0 /\ now < CurrentWindowStart(log, W) + W
       THEN AdmittedInWindow(log, W)
       ELSE 0

C22_EleventhStep ==
  \A ip \in SearchIps :
    (/\ resp'.seq # resp.seq
     /\ resp'.ip = ip
     /\ resp'.path = SearchPath
     /\ CallsInOpenWindow(ip) = 10)
    => resp'.status = 429

\* C22 (as stated): with the shipped search configuration, the 11th search
\* call of one caller within one 5-minute window is answered 429.
C22_EleventhDenied == [][C22_EleventhStep]_vars

C22_Step ==
  \A ip \in SearchIps :
    (/\ resp'.seq # resp.seq
     /\ resp'.ip = ip
     /\ resp'.path = SearchPath)
    => LET n == CallsInOpenWindow(ip)
       IN /\ n = 50 => resp'.status = 429
          /\ n < 50 => resp'.status = 200

\* C22 (amended): with the shipped search configuration, the first 50 search
\* calls of one caller within one 5-minute window are admitted and the 51st
\* is answered 429.
C22_FiftyFirstDenied == [][C22_Step]_vars

\* the 51st call of a window was denied
C22_Witness ==
  /\ resp.path = SearchPath
  /\ resp.status = 429
  /\ resp.seq = 51
  /\ now < resp.resetTime

\* =========================================================================
\* Content cache: capacity and the frame of set
\* =========================================================================
\* C23: the cache never holds more than maxSize entries.
C23_SizeBounded == Len(cache) <= maxSize

C28_SetStep ==
  (/\ out'.seq = out.seq + 1
   /\ out'.op = "set"
   /\ OMapHas(cache, out'.key))
  => /\ Len(cache') >= Len(cache)
     /\ \A k \in OMapKeys(cache) \ {out'.key} :
          /\ OMapHas(cache', k)
          /\ OMapGet(cache', k) = OMapGet(cache, k)

\* C28: set on a key that is already stored removes no other key: the cache
\* does not shrink and every other entry is still there, unchanged.
C28_OverwriteKeepsOthers == [][C28_SetStep]_vars

\* =========================================================================
\* Catalog reads: the search cache key
\* =========================================================================
\* C30: a search that was answered from the cache was answered with the
\* result of its own query, category and limit.
C30_CachedSearchIsOwn ==
  (catResp.handler = "searchTemplates" /\ catResp.success /\ catResp.cached)
  => catResp.data = searchTemplates(trim(catResp.query.text), catResp.query.category,
                                    parseLimit(catResp.query.limit))

\* =========================================================================
\* Image sizes: properties
\* =========================================================================
Min(a, b) == IF a <= b THEN a ELSE b

Abs(a) == IF a >= 0 THEN a ELSE -a

\* C29: the target size of a validated upload is at least 1 and at most the
\* smaller of the source side and the maximum in each dimension, is the source
\* size when the source already fits, and otherwise has the source's aspect
\* ratio up to one pixel in one of its sides.
C29_TargetSize ==
  dims.stage = "sized" =>
    LET w == dims.originalWidth
        h == dims.originalHeight
    IN /\ 1 <= dims.width /\ dims.width <= Min(w, dims.maxWidth)
       /\ 1 <= dims.height /\ dims.height <= Min(h, dims.maxHeight)
       /\ (w <= dims.maxWidth /\ h <= dims.maxHeight)
            => (dims.width = w /\ dims.height = h)
       /\ \/ Abs(dims.width * h - dims.height * w) <= h
          \/ Abs(dims.width * h - dims.height * w) <= w

====
